---- MODULE Spec2Model ----
(***************************************************************************)
(* Tiered artist model of src/src/model/artist.rs: the wire document is    *)
(* deserialized into an ArtistObject (common tier plus two optional        *)
(* tiers), which is converted into the Artist union or directly into       *)
(* FullArtist / PartialArtist / LocalArtist; the From impls move values    *)
(* between the union and the concrete types and panic on the cases they    *)
(* do not accept.                                                          *)
(*                                                                         *)
(* A behaviour is one chain of conversions applied to one wire document:   *)
(* `doc` is the document, `chain` the sequence of outcomes so far, each    *)
(* [op, ty, val]: the conversion applied, the Rust type of its result      *)
(* ("Panic" and "DecodeError" for the two failing outcomes) and the value. *)
(***************************************************************************)
EXTENDS Integers, Sequences, FiniteSets

VARIABLES doc, chain

vars == <<doc, chain>>

(* ---------- bounds ---------- *)

\* longest chain of conversions applied to one document
MaxSteps == 6

(* ---------- Rust Option<T>, as a sequence of length at most one ---------- *)

None == <<>>

Some(x) == <<x>>

IsSome(o) == o # <<>>

Unwrap(o) == o[1]

Opt(S) == {None} \cup {Some(x) : x \in S}

(* ---------- outcomes ---------- *)

Ok(ty, val) == [ty |-> ty, val |-> val]

Panic(msg) == [ty |-> "Panic", val |-> [msg |-> msg]]

DecodeError(msg) == [ty |-> "DecodeError", val |-> [msg |-> msg]]

(* ---------- wire documents (JSON objects; a key is absent or has a value) ---------- *)

Names == {"Test", "Local Song"}

UrlMaps == {{}, {<<"spotify", "https://open.spotify.com/artist/abc">>}}

TypeTags == {"artist", "track"}

Ids == {"abc", "xyz"}

GenreLists == {<<>>, <<"rock">>}

ImageLists == {<<>>, <<[url |-> "https://i.scdn.co/image/1", width |-> 64, height |-> 64]>>}

\* JSON integers; -1 does not fit the u32 of FullArtistFields.popularity
Popularities == {-1, 0, 50}

\* u32: every integer the checker represents is below 2^32, so only the sign decides
IsU32(n) == n >= 0

Docs ==
    [name : Opt(Names), external_urls : Opt(UrlMaps), type : Opt(TypeTags),
     id : Opt(Ids), genres : Opt(GenreLists), images : Opt(ImageLists),
     popularity : Opt(Popularities)]

(* ---------- deserialization (serde derive on the structs) ---------- *)

\* object_type::obj_deserialize for TypeArtist: the tag must be the artist literal
obj_deserialize(tag) == IF tag = "artist" THEN Some("artist") ELSE None

\* Id<'static, ArtistId>: the id string is taken as it is
IdDeserialize(s) == Some(s)

\* CommonArtistFields: name required, external_urls defaulted, type checked.
\* None stands for serde's Err.
DeserializeCommon(d) ==
    IF ~IsSome(d.name) THEN None
    ELSE IF ~IsSome(d.type) THEN None
    ELSE IF ~IsSome(obj_deserialize(Unwrap(d.type))) THEN None
    ELSE Some([name |-> Unwrap(d.name),
               external_urls |-> IF IsSome(d.external_urls) THEN Unwrap(d.external_urls) ELSE {},
               item_type |-> Unwrap(obj_deserialize(Unwrap(d.type)))])

\* NonLocalArtistFields: id required
DeserializeNonLocal(d) ==
    IF ~IsSome(d.id) THEN None
    ELSE IF ~IsSome(IdDeserialize(Unwrap(d.id))) THEN None
    ELSE Some([id |-> Unwrap(IdDeserialize(Unwrap(d.id)))])

\* The mutant of DeserializeFull: genres alone makes the tier present, the
\* other two keys defaulted.
DeserializeFullGenresOnly(d) ==
    IF ~IsSome(d.genres) THEN None
    ELSE Some([genres |-> Unwrap(d.genres),
               images |-> IF IsSome(d.images) THEN Unwrap(d.images) ELSE <<>>,
               popularity |-> IF IsSome(d.popularity) /\ IsU32(Unwrap(d.popularity))
                              THEN Unwrap(d.popularity) ELSE 0])

\* FullArtistFields: genres, images and popularity all required, popularity a u32
DeserializeFull(d) ==
    IF ~IsSome(d.genres) \/ ~IsSome(d.images) \/ ~IsSome(d.popularity) THEN None
    ELSE IF ~IsU32(Unwrap(d.popularity)) THEN None
    ELSE Some([genres |-> Unwrap(d.genres), images |-> Unwrap(d.images),
               popularity |-> Unwrap(d.popularity)])

\* ArtistObject: common flattened and required; non_local and full flattened
\* Options, where a tier that fails to deserialize is None and not an error
DeserializeArtistObject(d) ==
    IF ~IsSome(DeserializeCommon(d))
    THEN DecodeError("invalid or missing common artist field")
    ELSE Ok("ArtistObject",
            [common |-> Unwrap(DeserializeCommon(d)),
             non_local |-> DeserializeNonLocal(d),
             full |-> DeserializeFull(d)])

(* ---------- the From impls ---------- *)

\* The mutant of ArtistFromObject: the fourth combination is downgraded to Local.
ArtistFromObjectDowngrade(obj) ==
    IF IsSome(obj.non_local) /\ IsSome(obj.full)
    THEN Ok("Artist", [variant |-> "Full",
                       boxed |-> [common |-> obj.common, non_local |-> Unwrap(obj.non_local),
                                  full |-> Unwrap(obj.full)]])
    ELSE IF IsSome(obj.non_local)
    THEN Ok("Artist", [variant |-> "Partial",
                       boxed |-> [common |-> obj.common, non_local |-> Unwrap(obj.non_local)]])
    ELSE Ok("Artist", [variant |-> "Local", boxed |-> [common |-> obj.common]])

\* impl From<ArtistObject> for Artist
ArtistFromObject(obj) ==
    IF IsSome(obj.non_local) /\ IsSome(obj.full)
    THEN Ok("Artist", [variant |-> "Full",
                       boxed |-> [common |-> obj.common, non_local |-> Unwrap(obj.non_local),
                                  full |-> Unwrap(obj.full)]])
    ELSE IF IsSome(obj.non_local) /\ ~IsSome(obj.full)
    THEN Ok("Artist", [variant |-> "Partial",
                       boxed |-> [common |-> obj.common, non_local |-> Unwrap(obj.non_local)]])
    ELSE IF ~IsSome(obj.non_local) /\ ~IsSome(obj.full)
    THEN Ok("Artist", [variant |-> "Local", boxed |-> [common |-> obj.common]])
    ELSE Panic("impossible case trying to convert ArtistObject into Artist")

\* The mutant of ArtistFromPartial: the value is wrapped as Full, with made-up full fields.
ArtistFromPartialFabricate(partial) ==
    Ok("Artist", [variant |-> "Full",
                  boxed |-> [common |-> partial.common, non_local |-> partial.non_local,
                             full |-> [genres |-> <<>>, images |-> <<>>, popularity |-> 0]]])

\* impl From<PartialArtist> for Artist
ArtistFromPartial(partial) == Ok("Artist", [variant |-> "Partial", boxed |-> partial])

\* The mutant of ArtistFromFull: the genres are lost in the box.
ArtistFromFullNoGenres(full) ==
    Ok("Artist", [variant |-> "Full",
                  boxed |-> [full EXCEPT !.full = [@ EXCEPT !.genres = <<>>]]])

\* impl From<FullArtist> for Artist
ArtistFromFull(full) == Ok("Artist", [variant |-> "Full", boxed |-> full])

\* impl From<LocalArtist> for Artist
ArtistFromLocal(local) == Ok("Artist", [variant |-> "Local", boxed |-> local])

\* The mutant of FullFromArtist: a Partial is completed with default full fields.
FullFromArtistDefault(artist) ==
    IF artist.variant = "Full" THEN Ok("FullArtist", artist.boxed)
    ELSE IF artist.variant = "Partial"
    THEN Ok("FullArtist", [common |-> artist.boxed.common, non_local |-> artist.boxed.non_local,
                           full |-> [genres |-> <<>>, images |-> <<>>, popularity |-> 0]])
    ELSE Panic("attempt to convert local artist into full artist")

\* impl From<Artist> for FullArtist
FullFromArtist(artist) ==
    IF artist.variant = "Full" THEN Ok("FullArtist", artist.boxed)
    ELSE IF artist.variant = "Partial"
    THEN Panic("attempt to convert partial artist into full artist")
    ELSE Panic("attempt to convert local artist into full artist")

\* The mutant of FullFromObject: a missing full tier is default-constructed.
FullFromObjectDefault(obj) ==
    IF IsSome(obj.non_local)
    THEN Ok("FullArtist", [common |-> obj.common, non_local |-> Unwrap(obj.non_local),
                           full |-> IF IsSome(obj.full) THEN Unwrap(obj.full)
                                    ELSE [genres |-> <<>>, images |-> <<>>, popularity |-> 0]])
    ELSE Panic("attempt to convert non-full artist object into full artist")

\* impl From<ArtistObject> for FullArtist
FullFromObject(obj) ==
    IF IsSome(obj.non_local) /\ IsSome(obj.full)
    THEN Ok("FullArtist", [common |-> obj.common, non_local |-> Unwrap(obj.non_local),
                           full |-> Unwrap(obj.full)])
    ELSE Panic("attempt to convert non-full artist object into full artist")

\* impl From<Artist> for PartialArtist
PartialFromArtist(artist) ==
    IF artist.variant = "Full"
    THEN Ok("PartialArtist", [common |-> artist.boxed.common, non_local |-> artist.boxed.non_local])
    ELSE IF artist.variant = "Partial" THEN Ok("PartialArtist", artist.boxed)
    ELSE Panic("attempt to convert local artist into partial artist")

\* The mutant of PartialFromObject: an object that also has the full tier is refused.
PartialFromObjectExact(obj) ==
    IF IsSome(obj.non_local) /\ ~IsSome(obj.full)
    THEN Ok("PartialArtist", [common |-> obj.common, non_local |-> Unwrap(obj.non_local)])
    ELSE Panic("attempt to convert local artist object into partial artist")

\* impl From<ArtistObject> for PartialArtist
PartialFromObject(obj) ==
    IF IsSome(obj.non_local)
    THEN Ok("PartialArtist", [common |-> obj.common, non_local |-> Unwrap(obj.non_local)])
    ELSE Panic("attempt to convert local artist object into partial artist")

\* A mutant of LocalFromArtist: the Partial arm loses the external URLs.
LocalFromArtistPartialNoUrls(artist) ==
    IF artist.variant = "Full" THEN Ok("LocalArtist", [common |-> artist.boxed.common])
    ELSE IF artist.variant = "Partial"
    THEN Ok("LocalArtist", [common |-> [artist.boxed.common EXCEPT !.external_urls = {}]])
    ELSE Ok("LocalArtist", artist.boxed)

\* A mutant of LocalFromArtist: a Full is refused, as the other narrowings refuse.
LocalFromArtistFullPanics(artist) ==
    IF artist.variant = "Full" THEN Panic("attempt to convert full artist into local artist")
    ELSE IF artist.variant = "Partial" THEN Ok("LocalArtist", [common |-> artist.boxed.common])
    ELSE Ok("LocalArtist", artist.boxed)

\* impl From<Artist> for LocalArtist
LocalFromArtist(artist) ==
    IF artist.variant = "Full" THEN Ok("LocalArtist", [common |-> artist.boxed.common])
    ELSE IF artist.variant = "Partial" THEN Ok("LocalArtist", [common |-> artist.boxed.common])
    ELSE Ok("LocalArtist", artist.boxed)

\* impl From<ArtistObject> for LocalArtist
LocalFromObject(obj) == Ok("LocalArtist", [common |-> obj.common])

(* ---------- the state machine ---------- *)

Last == chain[Len(chain)]

Step(op, out) == chain' = Append(chain, [op |-> op, ty |-> out.ty, val |-> out.val])

CanApply(ty) == /\ Len(chain) >= 1
                /\ Len(chain) < MaxSteps
                /\ Last.ty = ty

Init == /\ doc \in Docs
        /\ chain = <<>>

Decode == /\ chain = <<>>
          /\ Step("Decode", DeserializeArtistObject(doc))
          /\ UNCHANGED doc

ObjectToArtist == /\ CanApply("ArtistObject")
                  /\ Step("ArtistFromObject", ArtistFromObject(Last.val))
                  /\ UNCHANGED doc

ObjectToFull == /\ CanApply("ArtistObject")
                /\ Step("FullFromObject", FullFromObject(Last.val))
                /\ UNCHANGED doc

ObjectToPartial == /\ CanApply("ArtistObject")
                   /\ Step("PartialFromObject", PartialFromObject(Last.val))
                   /\ UNCHANGED doc

ObjectToLocal == /\ CanApply("ArtistObject")
                 /\ Step("LocalFromObject", LocalFromObject(Last.val))
                 /\ UNCHANGED doc

FullToArtist == /\ CanApply("FullArtist")
                /\ Step("ArtistFromFull", ArtistFromFull(Last.val))
                /\ UNCHANGED doc

PartialToArtist == /\ CanApply("PartialArtist")
                   /\ Step("ArtistFromPartial", ArtistFromPartial(Last.val))
                   /\ UNCHANGED doc

LocalToArtist == /\ CanApply("LocalArtist")
                 /\ Step("ArtistFromLocal", ArtistFromLocal(Last.val))
                 /\ UNCHANGED doc

ArtistToFull == /\ CanApply("Artist")
                /\ Step("FullFromArtist", FullFromArtist(Last.val))
                /\ UNCHANGED doc

ArtistToPartial == /\ CanApply("Artist")
                   /\ Step("PartialFromArtist", PartialFromArtist(Last.val))
                   /\ UNCHANGED doc

ArtistToLocal == /\ CanApply("Artist")
                 /\ Step("LocalFromArtist", LocalFromArtist(Last.val))
                 /\ UNCHANGED doc

Next == \/ Decode
        \/ ObjectToArtist
        \/ ObjectToFull
        \/ ObjectToPartial
        \/ ObjectToLocal
        \/ FullToArtist
        \/ PartialToArtist
        \/ LocalToArtist
        \/ ArtistToFull
        \/ ArtistToPartial
        \/ ArtistToLocal

Spec == Init /\ [][Next]_vars

(* ---------- reading a chain ---------- *)

Steps == 1..Len(chain)

\* the value the i-th conversion consumed (i >= 2)
Src(i) == chain[i - 1].val

Res(i) == chain[i]

IsValue(e) == e.ty \in {"Artist", "FullArtist", "PartialArtist", "LocalArtist"}

Applied(i, op) == i \in Steps /\ i >= 2 /\ chain[i].op = op

\* the tiers an outcome holds, each as an Option
TiersOf(e) ==
    CASE e.ty = "ArtistObject" ->
           [common |-> Some(e.val.common), non_local |-> e.val.non_local, full |-> e.val.full]
      [] e.ty = "FullArtist" \/ (e.ty = "Artist" /\ e.val.variant = "Full") ->
           LET v == IF e.ty = "Artist" THEN e.val.boxed ELSE e.val
           IN [common |-> Some(v.common), non_local |-> Some(v.non_local), full |-> Some(v.full)]
      [] e.ty = "PartialArtist" \/ (e.ty = "Artist" /\ e.val.variant = "Partial") ->
           LET v == IF e.ty = "Artist" THEN e.val.boxed ELSE e.val
           IN [common |-> Some(v.common), non_local |-> Some(v.non_local), full |-> None]
      [] e.ty = "LocalArtist" \/ (e.ty = "Artist" /\ e.val.variant = "Local") ->
           LET v == IF e.ty = "Artist" THEN e.val.boxed ELSE e.val
           IN [common |-> Some(v.common), non_local |-> None, full |-> None]

TierNames == {"common", "non_local", "full"}

Held(e) == {t \in TierNames : IsSome(TiersOf(e)[t])}

(* ---------- C1 ---------- *)

\* C1: Artist::from(ArtistObject) is decided by the presence of the two optional
\* tiers alone: (present, present) gives Full, (present, absent) Partial,
\* (absent, absent) Local, and (absent, present) always panics, never a variant.
C1_Classification ==
    \A i \in Steps : Applied(i, "ArtistFromObject") =>
        LET nl == IsSome(Src(i).non_local)
            fl == IsSome(Src(i).full)
        IN /\ (nl /\ fl) => (Res(i).ty = "Artist" /\ Res(i).val.variant = "Full")
           /\ (nl /\ ~fl) => (Res(i).ty = "Artist" /\ Res(i).val.variant = "Partial")
           /\ (~nl /\ ~fl) => (Res(i).ty = "Artist" /\ Res(i).val.variant = "Local")
           /\ (~nl /\ fl) => Res(i).ty = "Panic"

C1_Witness ==
    \E i \in Steps : /\ Applied(i, "ArtistFromObject")
                     /\ ~IsSome(Src(i).non_local) /\ IsSome(Src(i).full)
                     /\ Res(i).ty = "Panic"

(* ---------- C2 ---------- *)

\* C2: narrowing the union to Full succeeds iff the union holds Full, narrowing
\* it to Partial succeeds iff it holds Full or Partial; every other case panics
\* and produces no value of the target type.
C2_Narrowing ==
    \A i \in Steps :
        /\ Applied(i, "FullFromArtist") =>
             /\ Res(i).ty = "FullArtist" <=> Src(i).variant = "Full"
             /\ Res(i).ty # "FullArtist" => Res(i).ty = "Panic"
        /\ Applied(i, "PartialFromArtist") =>
             /\ Res(i).ty = "PartialArtist" <=> Src(i).variant \in {"Full", "Partial"}
             /\ Res(i).ty # "PartialArtist" => Res(i).ty = "Panic"

C2_Witness ==
    \E i \in Steps : /\ Applied(i, "FullFromArtist")
                     /\ Src(i).variant = "Partial"
                     /\ Res(i).ty = "Panic"

(* ---------- C3 ---------- *)

\* C3 as claimed: an ArtistObject converts into a concrete type iff its tier
\* combination is exactly that type's, and panics otherwise.
C3_ExactMatchOnly ==
    \A i \in Steps :
        LET nl == IsSome(Src(i).non_local)
            fl == IsSome(Src(i).full)
        IN /\ Applied(i, "FullFromObject") =>
                IF nl /\ fl THEN Res(i).ty = "FullArtist" ELSE Res(i).ty = "Panic"
           /\ Applied(i, "PartialFromObject") =>
                IF nl /\ ~fl THEN Res(i).ty = "PartialArtist" ELSE Res(i).ty = "Panic"
           /\ Applied(i, "LocalFromObject") =>
                IF ~nl /\ ~fl THEN Res(i).ty = "LocalArtist" ELSE Res(i).ty = "Panic"

\* C3 as amended: into Full succeeds iff both tiers are present; into Partial
\* succeeds iff non_local is present, a present full tier being dropped; into
\* Local always succeeds, whatever tiers are present being dropped. Every
\* failure is a panic, and a success carries the object's own tiers.
C3_ObjectToConcrete ==
    \A i \in Steps :
        LET nl == IsSome(Src(i).non_local)
            fl == IsSome(Src(i).full)
        IN /\ Applied(i, "FullFromObject") =>
                IF nl /\ fl
                THEN /\ Res(i).ty = "FullArtist"
                     /\ Res(i).val = [common |-> Src(i).common,
                                      non_local |-> Unwrap(Src(i).non_local),
                                      full |-> Unwrap(Src(i).full)]
                ELSE Res(i).ty = "Panic"
           /\ Applied(i, "PartialFromObject") =>
                IF nl
                THEN /\ Res(i).ty = "PartialArtist"
                     /\ Res(i).val = [common |-> Src(i).common,
                                      non_local |-> Unwrap(Src(i).non_local)]
                ELSE Res(i).ty = "Panic"
           /\ Applied(i, "LocalFromObject") =>
                /\ Res(i).ty = "LocalArtist"
                /\ Res(i).val = [common |-> Src(i).common]

C3_Witness ==
    \E i \in Steps : /\ Applied(i, "PartialFromObject")
                     /\ IsSome(Src(i).non_local) /\ IsSome(Src(i).full)
                     /\ Res(i).ty = "PartialArtist"

(* ---------- C4 ---------- *)

\* C4: a FullArtist widened into the union and narrowed back to FullArtist
\* comes back equal in all three tiers.
C4_RoundTrip ==
    \A i \in Steps :
        (/\ chain[i].ty = "FullArtist"
         /\ Applied(i + 1, "ArtistFromFull")
         /\ Applied(i + 2, "FullFromArtist")) =>
            /\ Res(i + 2).ty = "FullArtist"
            /\ Res(i + 2).val.common = chain[i].val.common
            /\ Res(i + 2).val.non_local = chain[i].val.non_local
            /\ Res(i + 2).val.full = chain[i].val.full

C4_Witness ==
    \E i \in Steps : /\ chain[i].ty = "FullArtist"
                     /\ Applied(i + 1, "ArtistFromFull")
                     /\ Applied(i + 2, "FullFromArtist")
                     /\ chain[i].val.full.genres # <<>>
                     /\ Res(i + 2).val = chain[i].val

(* ---------- C5 ---------- *)

\* the chain went from the Full at step i to Partial and on to Local, each
\* time through the union
ViaPartial(i) ==
    /\ chain[i].ty = "FullArtist"
    /\ Applied(i + 1, "ArtistFromFull")
    /\ Applied(i + 2, "PartialFromArtist")
    /\ Applied(i + 3, "ArtistFromPartial")
    /\ Applied(i + 4, "LocalFromArtist")

\* C5: Full -> Partial -> Local gives the same LocalArtist as Full -> Local.
C5_PathIndependence ==
    \A i \in Steps : ViaPartial(i) =>
        LET direct == LocalFromArtist(ArtistFromFull(chain[i].val).val)
        IN /\ Res(i + 4).ty = "LocalArtist"
           /\ direct.ty = "LocalArtist"
           /\ Res(i + 4).val = direct.val

C5_Witness ==
    \E i \in Steps : /\ ViaPartial(i)
                     /\ Res(i + 4).ty = "LocalArtist"
                     /\ Res(i + 4).val.common.external_urls # {}

(* ---------- C6 ---------- *)

\* C6: the union converts to LocalArtist whatever it holds, never panicking,
\* and the result's common tier is the common tier of the value it held.
C6_ToLocalTotal ==
    \A i \in Steps : Applied(i, "LocalFromArtist") =>
        /\ Res(i).ty = "LocalArtist"
        /\ Res(i).val.common = Src(i).boxed.common

C6_Witness ==
    \E i \in Steps : /\ Applied(i, "LocalFromArtist")
                     /\ Src(i).variant = "Full"
                     /\ Res(i).ty = "LocalArtist"

(* ---------- C7 ---------- *)

ValidCommon(d) == IsSome(d.name) /\ d.type = Some("artist")

\* the document was decoded and the result classified into the union
DecodedAndClassified == Len(chain) >= 2 /\ chain[2].op = "ArtistFromObject"

\* C7 as claimed: valid common fields, no id key and a genres key, whatever the
\* other full-tier keys: decoding then classifying ends in the panic.
C7_GenresWithoutId ==
    (/\ DecodedAndClassified
     /\ ValidCommon(doc) /\ ~IsSome(doc.id) /\ IsSome(doc.genres)) =>
        chain[2].ty = "Panic"

\* all three full-tier keys are there and well typed
FullKeysComplete(d) ==
    /\ IsSome(d.genres) /\ IsSome(d.images) /\ IsSome(d.popularity)
    /\ IsU32(Unwrap(d.popularity))

\* C7 as amended: with valid common fields, no id key and a genres key, decoding
\* then classifying ends in the panic when images and popularity are present
\* and well typed too; when one of them is missing or ill typed the full tier
\* is recorded absent and the document classifies as Local.
C7_FullKeysWithoutId ==
    (/\ DecodedAndClassified
     /\ ValidCommon(doc) /\ ~IsSome(doc.id) /\ IsSome(doc.genres)) =>
        /\ chain[1].ty = "ArtistObject"
        /\ IF FullKeysComplete(doc)
           THEN chain[2].ty = "Panic"
           ELSE chain[2].ty = "Artist" /\ chain[2].val.variant = "Local"

C7_Witness ==
    /\ DecodedAndClassified
    /\ ValidCommon(doc) /\ ~IsSome(doc.id) /\ FullKeysComplete(doc)
    /\ chain[2].ty = "Panic"

(* ---------- C8 ---------- *)

\* the i-th conversion was given a source it does not accept
Violation(i) ==
    \/ Applied(i, "ArtistFromObject") /\ ~IsSome(Src(i).non_local) /\ IsSome(Src(i).full)
    \/ Applied(i, "FullFromArtist") /\ Src(i).variant # "Full"
    \/ Applied(i, "PartialFromArtist") /\ Src(i).variant = "Local"
    \/ Applied(i, "FullFromObject") /\ ~(IsSome(Src(i).non_local) /\ IsSome(Src(i).full))
    \/ Applied(i, "PartialFromObject") /\ ~IsSome(Src(i).non_local)

\* C8 as claimed: an invariant violation comes back to the caller as an error
\* outcome; no conversion aborts.
C8_NoAbort == \A i \in Steps : Violation(i) => Res(i).ty # "Panic"

\* C8 as amended: every invariant violation ends in a panic, which yields no
\* value, after which nothing more is applied, and which differs from the
\* decode error that only deserialization returns; no conversion returns an
\* error value.
C8_ViolationsPanic ==
    \A i \in Steps :
        /\ Violation(i) => (Res(i).ty = "Panic" /\ i = Len(chain))
        /\ Res(i).ty = "Panic" => (Res(i).op # "Decode" /\ Violation(i))
        /\ Res(i).ty = "DecodeError" => (Res(i).op = "Decode" /\ i = 1)
        /\ Res(i).op # "Decode" => (IsValue(Res(i)) \/ Res(i).ty = "Panic")

C8_Witness ==
    \E i \in Steps : /\ Applied(i, "FullFromObject")
                     /\ IsSome(Src(i).non_local) /\ ~IsSome(Src(i).full)
                     /\ Res(i).ty = "Panic"

(* ---------- C10 ---------- *)

\* C10: along a chain that starts from a raw object, every value produced holds
\* only tiers equal to the raw object's, holds no tier its predecessor did not
\* hold, and holds full only together with non_local.
C10_NoFabricationNoGrowth ==
    \A i \in Steps : (i >= 2 /\ IsValue(chain[i])) =>
        /\ \A t \in Held(chain[i]) : TiersOf(chain[i])[t] = TiersOf(chain[1])[t]
        /\ Held(chain[i]) \subseteq Held(chain[i - 1])
        /\ "full" \in Held(chain[i]) => "non_local" \in Held(chain[i])

C10_Witness ==
    /\ Len(chain) >= 5
    /\ IsValue(chain[Len(chain)])
    /\ Held(chain[1]) = TierNames
    /\ Held(chain[Len(chain)]) = {"common"}
    /\ \E i \in Steps : Held(chain[i]) = {"common", "non_local"}

====
